---- MODULE Spec2Model ----
(***************************************************************************)
(* A model of the mijnbib client library: the MijnBibliotheek orchestrator *)
(* (login, get_loans, get_reservations, get_accounts, get_all_info,        *)
(* extend_loans) and the login handlers LoginByForm and LoginByOAuth.      *)
(*                                                                         *)
(* One step of the model is one complete call of a public method.  The     *)
(* answers of the web site (status codes, headers, page bodies, transport  *)
(* failures) are the inputs of the call and are drawn from bounded sets.   *)
(* The variable `call` records what the last call did: the requests it     *)
(* issued, in order, and how it ended (return value or raised exception).  *)
(***************************************************************************)
EXTENDS Integers, Sequences, FiniteSets, TLC

VARIABLES
    logged_in,      \* MijnBibliotheek._logged_in
    validated,      \* history: some login handshake of the instance ran to
                    \* its end and its final page passed validation
    call,           \* history: the last completed call (see Call below)
    br_cookiejar,   \* which jar the handler's mechanize browser uses:
                    \* "own" (its initial jar) or "session" (self._s.cookies)
    s_cookies,      \* cookies held by the LoginByOAuth requests session:
                    \* pairs <<name, value>>, the value the number of the
                    \* handshake that received the cookie
    package         \* the package mijnbib that Python imports: "src", the
                    \* sources as they stand, or "completed" (see Packages)

vars == <<logged_in, validated, call, br_cookiejar, s_cookies, package>>

-----------------------------------------------------------------------------
(* Bounds *)

\* number of accounts listed on the accounts page
MaxAccounts == 1
\* largest item count shown on the accounts page
MaxCount == 1

AccountIds == 1..MaxAccounts

-----------------------------------------------------------------------------
(* Values *)

\* Python's None, where the value is otherwise a string
None == "None"
\* Python's None, where the value is otherwise a count (int | None)
NoCount == -1

\* Marker strings the code looks for in a page body.  A body is modelled by
\* the set of marker strings it contains; `m in html` is `m \in html`.
Profiel == "Profiel"
PrivacyChanged == "privacyverklaring is gewijzigd"
PrivacyAgree == "akkoord met de privacyverklaring"
AangemeldAls == "Aangemeld als"
Markers == {Profiel, PrivacyChanged, PrivacyAgree, AangemeldAls}
Bodies == SUBSET Markers
\* the empty string
EmptyHtml == {}

\* A url: the page it names, the account id in its path (0 when there is
\* none) and the names of its query parameters.  The empty url "" is
\* Url("", 0, {}).
Url(page, account, query) == [page |-> page, account |-> account, query |-> query]
EmptyUrl == Url("", 0, {})

\* Form data of a request; a field the request does not carry is "absent".
NoData == [hint |-> "absent", token |-> "absent", callback |-> "absent",
           email |-> "absent", password |-> "absent"]

Request(method, url, data) == [method |-> method, url |-> url, data |-> data]
Get(url) == Request("GET", url, NoData)

\* An exception: its class, message, and the html_body / url attribute
\* (None when the class has no such attribute).  NoExc: normal return.
Exc(type, msg, html_body, url) ==
    [url |-> url, type |-> type, msg |-> msg, html_body |-> html_body]
NoUrl == Url(None, 0, {})
NoExc == Exc("none", "", None, NoUrl)
Raised(e) == e.type # "none"

\* The library's error taxonomy (plugin_errors.py / errors.py)
Taxonomy == {"AuthenticationError", "ItemAccessError", "InvalidExtendLoanURL",
             "CanNotConnectError", "IncompatibleSourceError",
             "ExtendLoanError", "TemporarySiteError"}

AuthenticationError(msg) == Exc("AuthenticationError", msg, None, NoUrl)

\* IncompatibleSourceError.__init__(self, msg, html_body)
IncompatibleSourceError(msg, html_body) ==
    Exc("IncompatibleSourceError", msg, html_body, NoUrl)

\* CanNotConnectError.__init__(self, msg, url): both arguments are required,
\* a call with one argument raises TypeError instead of building the error.
CanNotConnectError(args) ==
    IF Len(args) = 2
    THEN Exc("CanNotConnectError", args[1], None, args[2])
    ELSE Exc("TypeError", "missing 1 required positional argument: 'url'", None, NoUrl)

\* Two names of the repository are used under src/ and defined nowhere in
\* it: mijnbibliotheek.py imports AccessError from mijnbib.plugin_errors
\* (plugin_errors.py and errors.py define ItemAccessError only), and
\* __init__.py imports get_item_info from mijnbibliotheek.py, which has no
\* such function.  __init__.py runs on the import of any module of the
\* package, parsers.py and login_handlers.py included.
\*   "src":       the sources as they stand.  The import raises ImportError,
\*                no class or function of the package comes to exist and
\*                nothing can be called.
\*   "completed": the sources with the two missing definitions in place, as
\*                the specification describes them: AccessError is the
\*                item-access error of the error taxonomy (ItemAccessError),
\*                get_item_info is a module-level function that no method
\*                of MijnBibliotheek, login handler or parser calls.  All
\*                other code is the code under src/.
Packages == {"src", "completed"}

\* the package could be imported
Imported == package = "completed"

\* `from mijnbib.plugin_errors import AccessError` in the package "src"
ImportError ==
    Exc("ImportError", "cannot import name 'AccessError' from 'mijnbib.plugin_errors'",
        None, NoUrl)

\* `raise AccessError(msg)` in the completed package: the item-access error
AccessError(msg) == Exc("ItemAccessError", msg, None, NoUrl)

ExtendLoanError(msg) == Exc("ExtendLoanError", msg, None, NoUrl)

\* urllib.error.URLError / mechanize.HTTPError raised by the browser and
\* not caught by the library
URLError == Exc("URLError", "", None, NoUrl)
HTTPError(code) == Exc("HTTPError", ToString(code), None, NoUrl)

-----------------------------------------------------------------------------
(* MijnBibliotheek: login *)

LoginUrl == Url("aanmelden", 0, {})
USERNAME == "username"
PWD == "pwd"
FormData == [NoData EXCEPT !.email = USERNAME, !.password = PWD]

\* What the site answers during MijnBibliotheek._log_in:
\*   open:   "ok" (page with a form), "noform" (page without form),
\*           "urlerror" (URLError, HTTPError included, on opening the page)
\*   submit: "resp" (a response with body `body`), "none" (submit returns
\*           None), "urlerror" (URLError on submitting)
LoginInputs ==
    {[open |-> o, submit |-> "resp", body |-> EmptyHtml] : o \in {"noform", "urlerror"}}
    \cup {[open |-> "ok", submit |-> s, body |-> EmptyHtml] : s \in {"none", "urlerror"}}
    \cup {[open |-> "ok", submit |-> "resp", body |-> b] :
             b \in SUBSET {Profiel, PrivacyChanged, PrivacyAgree}}
\* the answers to a login that succeeds
OkLoginInput == [open |-> "ok", submit |-> "resp", body |-> {Profiel}]

\* A response of the browser: None, or a response object with a body
NoResponse == [body |-> EmptyHtml, isNone |-> TRUE]
Response(body) == [body |-> body, isNone |-> FALSE]

\* MijnBibliotheek._log_in: the requests issued, the exception raised (or
\* NoExc) and the response returned
MB_log_in(url, inp) ==
    IF inp.open = "urlerror"
    THEN [reqs |-> <<Get(url)>>,
          exc |-> CanNotConnectError(<<"Error while trying to log in">>),
          response |-> NoResponse]
    ELSE IF inp.open = "noform"
    THEN [reqs |-> <<Get(url)>>,
          exc |-> IncompatibleSourceError("Can not find login form", "start_page"),
          response |-> NoResponse]
    ELSE IF inp.submit = "urlerror"
    THEN [reqs |-> <<Get(url), Request("POST", url, FormData)>>,
          exc |-> CanNotConnectError(<<"Error while trying to log in">>),
          response |-> NoResponse]
    ELSE [reqs |-> <<Get(url), Request("POST", url, FormData)>>,
          exc |-> NoExc,
          response |-> IF inp.submit = "none" THEN NoResponse ELSE Response(inp.body)]

MsgNotAccepted == "Login not accepted"
MsgPrivacy == "Login not accepted (likely need to accept privacy statement again)"
MsgNotAccepted2 == "Login not accepted (2)"

\* _validate_logged_in asking for both privacy markers instead of either
MB_validate_logged_in_both(response) ==
    LET html_string == IF ~response.isNone THEN response.body ELSE EmptyHtml
    IN  IF Profiel \notin html_string
        THEN IF PrivacyChanged \in html_string /\ PrivacyAgree \in html_string
             THEN AuthenticationError(MsgPrivacy)
             ELSE AuthenticationError(MsgNotAccepted)
        ELSE NoExc

\* MijnBibliotheek._validate_logged_in: the exception raised, or NoExc
MB_validate_logged_in(response) ==
    LET html_string == IF ~response.isNone THEN response.body ELSE EmptyHtml
    IN  IF Profiel \notin html_string
        THEN IF PrivacyChanged \in html_string \/ PrivacyAgree \in html_string
             THEN AuthenticationError(MsgPrivacy)
             ELSE AuthenticationError(MsgNotAccepted)
        ELSE NoExc

\* the login endpoint could not be reached: a transport-level failure on
\* opening the login page or on submitting the credentials
TransportFailed(inp) ==
    inp.open = "urlerror" \/ (inp.open = "ok" /\ inp.submit = "urlerror")

\* MijnBibliotheek.login: requests, exception, the page given to validation
\* (when validation was reached), the new value of _logged_in, and whether
\* the transport failed
MB_login(flag, inp) ==
    LET r == MB_log_in(LoginUrl, inp)
        v == MB_validate_logged_in(r.response)
    IN  IF Raised(r.exc)
        THEN [reqs |-> r.reqs, exc |-> r.exc, flag |-> flag,
              reached |-> FALSE, html |-> EmptyHtml, transport |-> TransportFailed(inp)]
        ELSE [reqs |-> r.reqs, exc |-> v, flag |-> IF ~Raised(v) THEN TRUE ELSE flag,
              reached |-> TRUE,
              html |-> IF r.response.isNone THEN EmptyHtml ELSE r.response.body, transport |-> FALSE]

\* a data method that logs in without looking at _logged_in
EnsureLogin_always(flag, inp) == MB_login(flag, inp)

\* a method that goes on to its data request without logging in
EnsureLogin_never(flag, inp) ==
    [reqs |-> <<>>, exc |-> NoExc, flag |-> flag,
     reached |-> FALSE, html |-> EmptyHtml, transport |-> FALSE]

\* `if not self._logged_in: self.login()` at the head of the data methods
EnsureLogin(flag, inp) ==
    IF ~flag
    THEN MB_login(flag, inp)
    ELSE [reqs |-> <<>>, exc |-> NoExc, flag |-> flag,
          reached |-> FALSE, html |-> EmptyHtml, transport |-> FALSE]

\* the login inputs a call in the given state can consume (none is read
\* when the instance is logged in)
LoginInputsFor(flag) == IF flag THEN {OkLoginInput} ELSE LoginInputs

-----------------------------------------------------------------------------
(* The record of a call *)

\* op: the public method; account / execute: its arguments (0 / FALSE when
\* it has none); open: what the site answered to the data request of the
\* call ("" when the call has none); reqs: the requests issued, in order;
\* exc: the exception raised (NoExc on normal return); ret: the value
\* returned; login: whether the call ran the login handshake; reached /
\* html: whether login validation was reached, and the page it inspected;
\* transport: whether the login endpoint could not be reached.
Call(op, account, execute, open, reqs, exc, ret, lg) ==
    [account |-> account, open |-> open, reqs |-> reqs, exc |-> exc,
     reached |-> lg.reached, html |-> lg.html, transport |-> lg.transport, op |-> op,
     execute |-> execute, ret |-> ret, login |-> lg.reqs # <<>>]

NoLogin == [reqs |-> <<>>, exc |-> NoExc, flag |-> FALSE, reached |-> FALSE,
            html |-> EmptyHtml, transport |-> FALSE]

\* The state after `import mijnbib` and the construction of the instance.
\* In the package "src" the import raises: there is no instance, the
\* ImportError is all that happened and no method can be called afterwards.
Init ==
    /\ package \in Packages
    /\ logged_in = FALSE
    /\ validated = FALSE
    /\ call = IF Imported
              THEN Call("init", 0, FALSE, "", <<>>, NoExc, <<>>, NoLogin)
              ELSE Call("import", 0, FALSE, "", <<>>, ImportError, <<>>, NoLogin)
    /\ br_cookiejar = "own"
    /\ s_cookies = {}

\* MijnBibliotheek.login
Login ==
    /\ Imported
    /\ \E inp \in LoginInputs :
        \E r \in {MB_login(logged_in, inp)} :
            /\ logged_in' = r.flag
            /\ validated' = (validated \/ (r.reached /\ ~Raised(r.exc)))
            /\ call' = Call("login", 0, FALSE, "", r.reqs, r.exc, <<>>, r)
            /\ UNCHANGED <<br_cookiejar, s_cookies, package>>

-----------------------------------------------------------------------------
(* MijnBibliotheek: loans and reservations *)

\* A loans / reservations page: whether it has the wrapper div, and the
\* direct children of that div in document order.  A child has a tag name,
\* a text (the branch name, for a header <h2>; the text of the title link
\* inside the card, for a <div>, "" when the card has no title element) and
\* an unparsable date or not (datetime.strptime raises ValueError on it).
Node(name, text, baddate) == [name |-> name, text |-> text, baddate |-> baddate]
Page(wrapper, nodes) == [wrapper |-> wrapper, nodes |-> nodes]
\* the empty string as a page
EmptyPage == Page(FALSE, <<>>)

\* the pages the site answers with in the model
ItemPages == {EmptyPage,
              Page(TRUE, <<Node("h2", "Branch", FALSE), Node("div", "", FALSE)>>),
              Page(TRUE, <<Node("div", "", TRUE)>>)}
OkPage == Page(TRUE, <<Node("h2", "Branch", FALSE), Node("div", "", FALSE)>>)

LoansUrl(account_id) == Url("uitleningen", account_id, {})
ReservationsUrl(account_id) == Url("reservaties", account_id, {})

\* What the site answers when a page is opened: "ok", "none" (open returns
\* None), "http500", "http404" (mechanize.HTTPError with that code),
\* "urlerror" (a URLError that is not an HTTPError)
OpenOutcomes == {"ok", "none", "http500", "http404", "urlerror"}

MsgLikelyAccountId ==
    "Loans url can not be opened. Likely incorrect or nonexisting account ID in the url"
MsgReasonUnknown == "Loans url can not be opened. Reason unknown"

\* MijnBibliotheek._open_account_loans_page
MB_open_account_loans_page(acc_url, open, page) ==
    IF open = "http500"
    THEN [exc |-> AccessError(MsgLikelyAccountId), html |-> EmptyPage]
    ELSE IF open = "http404"
    THEN [exc |-> AccessError(MsgReasonUnknown), html |-> EmptyPage]
    ELSE IF open = "urlerror"
    THEN [exc |-> URLError, html |-> EmptyPage]
    ELSE [exc |-> NoExc, html |-> IF open = "none" THEN EmptyPage ELSE page]

\* the result of a page parser: the exception raised, or the list
Parsed(exc, list) == [exc |-> exc, list |-> list]
ValueError == Exc("ValueError", "time data does not match format", None, NoUrl)

\* the loop of MijnBibliotheek._parse_account_loan_page over the children
RECURSIVE LoanWalk(_, _, _)
LoanWalk(children, branch_name, loans) ==
    IF children = <<>>
    THEN Parsed(NoExc, loans)
    ELSE LET child == Head(children)
         IN  IF child.name = "h2"
             THEN LoanWalk(Tail(children), child.text, loans)
             ELSE IF child.name = "div"
             THEN IF child.baddate
                  THEN Parsed(ValueError, <<>>)
                  ELSE LoanWalk(Tail(children), branch_name,
                                Append(loans, [branchname |-> branch_name]))
             ELSE LoanWalk(Tail(children), branch_name, loans)

\* MijnBibliotheek._parse_account_loan_page
MB_parse_account_loan_page(html) ==
    IF ~html.wrapper
    THEN Parsed(NoExc, <<>>)
    ELSE LoanWalk(html.nodes, "??", <<>>)

\* the loop of MijnBibliotheek._parse_account_reservations_page
RECURSIVE HoldWalk(_, _)
HoldWalk(children, holds) ==
    IF children = <<>>
    THEN Parsed(NoExc, holds)
    ELSE IF Head(children).baddate
    THEN Parsed(ValueError, <<>>)
    ELSE LET child == Head(children)
             \* the title is read from <h2 class="catalog-item__title"><a>
             \* below the child; a child without it keeps the default ""
             title == IF child.name = "div" THEN child.text ELSE ""
         IN  HoldWalk(Tail(children), Append(holds, [title |-> title]))

\* MijnBibliotheek._parse_account_reservations_page
MB_parse_account_reservations_page(html) ==
    IF ~html.wrapper
    THEN Parsed(NoExc, <<>>)
    ELSE HoldWalk(html.nodes, <<>>)

\* The body of get_loans / get_reservations after the login check: open
\* the page, parse it, wrap a parser exception.
FetchItems(kind, account_id, open, page) ==
    LET url == IF kind = "loans" THEN LoansUrl(account_id)
               ELSE ReservationsUrl(account_id)
        o == MB_open_account_loans_page(url, open, page)
        p == IF kind = "loans" THEN MB_parse_account_loan_page(o.html)
             ELSE MB_parse_account_reservations_page(o.html)
    IN  IF Raised(o.exc)
        THEN [reqs |-> <<Get(url)>>, exc |-> o.exc, list |-> <<>>]
        ELSE IF Raised(p.exc)
        THEN [reqs |-> <<Get(url)>>,
              exc |-> IncompatibleSourceError(
                         IF kind = "loans" THEN "Problem scraping loans"
                         ELSE "Problem scraping reservations", ""),
              list |-> <<>>]
        ELSE [reqs |-> <<Get(url)>>, exc |-> NoExc, list |-> p.list]

\* get_loans / get_reservations as a whole: new flag, requests, outcome
MB_get_items(kind, flag, account_id, lin, open, page) ==
    LET lg == EnsureLogin(flag, lin)
        f == FetchItems(kind, account_id, open, page)
    IN  IF Raised(lg.exc)
        THEN [open |-> "", reqs |-> lg.reqs, exc |-> lg.exc, lg |-> lg, list |-> <<>>]
        ELSE [open |-> open, reqs |-> lg.reqs \o f.reqs, exc |-> f.exc, lg |-> lg,
              list |-> f.list]

\* The inputs of get_loans / get_reservations: every login answer with a
\* good page, and every page answer with a login that succeeds.
ItemInputs(flag) ==
    {[page |-> OkPage, open |-> "ok", lin |-> l] : l \in LoginInputsFor(flag)}
    \cup {[page |-> EmptyPage, open |-> o, lin |-> OkLoginInput] :
             o \in OpenOutcomes \ {"ok"}}
    \cup {[page |-> p, open |-> "ok", lin |-> OkLoginInput] : p \in ItemPages}

\* MijnBibliotheek.get_loans
GetLoans ==
    /\ Imported
    /\ \E account_id \in AccountIds, inp \in ItemInputs(logged_in) :
        \E r \in {MB_get_items("loans", logged_in, account_id, inp.lin, inp.open,
                              inp.page)} :
            /\ logged_in' = r.lg.flag
            /\ validated' = (validated \/ (r.lg.reached /\ ~Raised(r.lg.exc)))
            /\ call' = Call("get_loans", account_id, FALSE, r.open, r.reqs, r.exc,
                            r.list, r.lg)
                        @@ [page |-> inp.page]
            /\ UNCHANGED <<br_cookiejar, s_cookies, package>>

\* MijnBibliotheek.get_reservations
GetReservations ==
    /\ Imported
    /\ \E account_id \in AccountIds, inp \in ItemInputs(logged_in) :
        \E r \in {MB_get_items("reservations", logged_in, account_id, inp.lin,
                              inp.open, inp.page)} :
            /\ logged_in' = r.lg.flag
            /\ validated' = (validated \/ (r.lg.reached /\ ~Raised(r.lg.exc)))
            /\ call' = Call("get_reservations", account_id, FALSE, r.open, r.reqs,
                            r.exc, r.list, r.lg)
                        @@ [page |-> inp.page]
            /\ UNCHANGED <<br_cookiejar, s_cookies, package>>

-----------------------------------------------------------------------------
(* MijnBibliotheek: accounts *)

\* The text of the link in a counter <li> of an account card: whether the
\* <li> (with its link) is there at all, whether the text contains "Geen",
\* and the numbers among its words.
LiText(present, geen, numbers) ==
    [present |-> present, geen |-> geen, numbers |-> numbers]
LiMissing == LiText(FALSE, FALSE, <<>>)
LiGeen == LiText(TRUE, TRUE, <<>>)
LiNumber(n) == LiText(TRUE, FALSE, <<n>>)
\* a link whose text has neither "Geen" nor a number
LiUnreadable == LiText(TRUE, FALSE, <<>>)
LiTexts == {LiMissing, LiGeen, LiUnreadable} \cup {LiNumber(n) : n \in 0..MaxCount}

\* a count parser for which a counter that can not be read counts as zero
MB_parse_item_count_from_li_zero(li) ==
    IF ~li.present
    THEN 0
    ELSE IF li.geen
    THEN 0
    ELSE IF li.numbers # <<>> THEN li.numbers[1] ELSE 0

\* MijnBibliotheek._parse_item_count_from_li
MB_parse_item_count_from_li(li) ==
    IF ~li.present
    THEN NoCount
    ELSE IF li.geen
    THEN 0
    ELSE IF li.numbers # <<>> THEN li.numbers[1] ELSE NoCount

\* An account card: the account id of its link (anchor FALSE: the card has
\* no link at all) and its two counters.
Card(id, anchor, loans_li, holds_li) ==
    [id |-> id, anchor |-> anchor, loans_li |-> loans_li, holds_li |-> holds_li]

\* the card of account i with one loan and one reservation
DefaultCard(i) == Card(i, TRUE, LiNumber(1), LiNumber(1))

\* the accounts pages the site answers with: no card; up to MaxAccounts
\* cards, the i-th for account i, one of them with any two counters and the
\* others with one loan and one reservation; and one page whose card has
\* no link
AccountPages ==
    {<<>>}
    \cup UNION {{[i \in 1..n |-> IF i = k THEN Card(i, TRUE, l, h) ELSE DefaultCard(i)] :
                   k \in 1..n, l \in LiTexts, h \in LiTexts} : n \in 1..MaxAccounts}
    \cup {<<Card(0, FALSE, LiMissing, LiMissing)>>}

Account(id, loans_count, reservations_count) ==
    [id |-> id, loans_count |-> loans_count,
     reservations_count |-> reservations_count]

TypeError == Exc("TypeError", "'NoneType' object is not subscriptable", None, NoUrl)

\* MijnBibliotheek._parse_accounts_list_page
RECURSIVE MB_parse_accounts_list_page(_, _)
MB_parse_accounts_list_page(acc_divs, accounts) ==
    IF acc_divs = <<>>
    THEN Parsed(NoExc, accounts)
    ELSE LET acc_div == Head(acc_divs)
         IN  IF ~acc_div.anchor
             THEN Parsed(TypeError, <<>>)
             ELSE MB_parse_accounts_list_page(Tail(acc_divs),
                      Append(accounts,
                             Account(acc_div.id,
                                     MB_parse_item_count_from_li(acc_div.loans_li),
                                     MB_parse_item_count_from_li(acc_div.holds_li))))

AccountsUrl == Url("lidmaatschappen", 0, {})
\* answers on opening the accounts page: "ok", or an error the method does
\* not catch
AccountsOpenOutcomes == {"ok", "http500", "urlerror"}

\* MijnBibliotheek.get_accounts: new flag, requests, outcome
MB_get_accounts(flag, lin, open, page) ==
    LET lg == EnsureLogin(flag, lin)
        p == MB_parse_accounts_list_page(page, <<>>)
        reqs == lg.reqs \o <<Get(AccountsUrl)>>
    IN  IF Raised(lg.exc)
        THEN [reqs |-> lg.reqs, exc |-> lg.exc, lg |-> lg, list |-> <<>>]
        ELSE IF open = "http500"
        THEN [reqs |-> reqs, exc |-> HTTPError(500), lg |-> lg, list |-> <<>>]
        ELSE IF open = "urlerror"
        THEN [reqs |-> reqs, exc |-> URLError, lg |-> lg, list |-> <<>>]
        ELSE IF Raised(p.exc)
        THEN [reqs |-> reqs, exc |-> IncompatibleSourceError("Problem scraping accounts", ""),
              lg |-> lg,
              list |-> <<>>]
        ELSE [reqs |-> reqs, exc |-> NoExc, lg |-> lg, list |-> p.list]

\* The inputs of get_accounts: every login answer with an empty accounts
\* page, and every page answer with a login that succeeds.
AccountsInputs(flag) ==
    {[page |-> <<>>, open |-> "ok", lin |-> l] : l \in LoginInputsFor(flag)}
    \cup {[page |-> <<>>, open |-> o, lin |-> OkLoginInput] :
             o \in AccountsOpenOutcomes \ {"ok"}}
    \cup {[page |-> p, open |-> "ok", lin |-> OkLoginInput] : p \in AccountPages}

\* the site's hasError flag of each membership; get_accounts reads the
\* accounts page only and never sees it
HasErrorFlags == [AccountIds -> BOOLEAN]

\* What the body of the answer is: the accounts page ("html"), a membership
\* listing in JSON whose member lacks the hasError key, or text that is not
\* valid JSON
PayloadShapes == {"html", "json_no_hasError", "invalid_json"}

\* soup.find_all("div", class_="my-library-user-library-account-list__library"):
\* the account cards of the body; a body that is not the accounts page has none
AccountDivs(shape, page) == IF shape = "html" THEN page ELSE <<>>

\* MijnBibliotheek.get_accounts
GetAccounts ==
    /\ Imported
    /\ \E inp \in AccountsInputs(logged_in), has_error \in HasErrorFlags,
       shape \in PayloadShapes :
        \E r \in {MB_get_accounts(logged_in, inp.lin, inp.open,
                                  AccountDivs(shape, inp.page))} :
            /\ shape # "html" => (inp.page = <<>> /\ inp.open = "ok" /\ inp.lin = OkLoginInput)
            /\ logged_in' = r.lg.flag
            /\ validated' = (validated \/ (r.lg.reached /\ ~Raised(r.lg.exc)))
            /\ call' = Call("get_accounts", 0, FALSE, "", r.reqs, r.exc, r.list, r.lg)
                        @@ [has_error |-> has_error, payload |-> shape]
            /\ UNCHANGED <<br_cookiejar, s_cookies, package>>

\* get_all_info fetching the items whatever the count
FetchNeeded_always(count) == TRUE

\* the condition of get_all_info for fetching the items of an account
\* (`a.loans_count != 0`, `a.reservations_count != 0`)
FetchNeeded(count) == count # 0

\* One pass of the loop of get_all_info: the two fetches for account `a`.
\* `down` is the set of urls the site answers with a 500; every other page
\* is OkPage.  The calls of get_loans / get_reservations find the instance
\* logged in.
NoFetch == [reqs |-> <<>>, exc |-> NoExc, list |-> <<>>]
AllInfoLoans(a, down) ==
    IF FetchNeeded(a.loans_count)
    THEN FetchItems("loans", a.id,
                    IF LoansUrl(a.id) \in down THEN "http500" ELSE "ok", OkPage)
    ELSE NoFetch
AllInfoReservations(a, down) ==
    IF FetchNeeded(a.reservations_count)
    THEN FetchItems("reservations", a.id,
                    IF ReservationsUrl(a.id) \in down THEN "http500" ELSE "ok",
                    OkPage)
    ELSE NoFetch

\* The loop of get_all_info over the accounts from the i-th on: the
\* requests sent, the exception that ended it, and the info collected.
RECURSIVE AllInfoWalk(_, _, _)
AllInfoWalk(accounts, down, i) ==
    IF i > Len(accounts)
    THEN [reqs |-> <<>>, exc |-> NoExc, info |-> <<>>]
    ELSE IF Raised(AllInfoLoans(accounts[i], down).exc)
    THEN [reqs |-> AllInfoLoans(accounts[i], down).reqs,
          exc |-> AllInfoLoans(accounts[i], down).exc, info |-> <<>>]
    ELSE IF Raised(AllInfoReservations(accounts[i], down).exc)
    THEN [reqs |-> AllInfoLoans(accounts[i], down).reqs
                   \o AllInfoReservations(accounts[i], down).reqs,
          exc |-> AllInfoReservations(accounts[i], down).exc, info |-> <<>>]
    ELSE [reqs |-> AllInfoLoans(accounts[i], down).reqs
                   \o AllInfoReservations(accounts[i], down).reqs
                   \o AllInfoWalk(accounts, down, i + 1).reqs,
          exc |-> AllInfoWalk(accounts, down, i + 1).exc,
          info |-> IF Raised(AllInfoWalk(accounts, down, i + 1).exc)
                   THEN <<>>
                   ELSE <<[loans |-> AllInfoLoans(accounts[i], down).list,
                           id |-> accounts[i].id,
                           account_details |-> accounts[i],
                           reservations |->
                               AllInfoReservations(accounts[i], down).list]>>
                        \o AllInfoWalk(accounts, down, i + 1).info]

\* MijnBibliotheek.get_all_info: new flag, requests, outcome, and the
\* accounts that get_accounts returned to it
MB_get_all_info(flag, lin, open, page, down) ==
    LET g == MB_get_accounts(flag, lin, open, page)
        w == AllInfoWalk(g.list, down, 1)
    IN  IF Raised(g.exc)
        THEN [reqs |-> g.reqs, exc |-> g.exc, lg |-> g.lg, accounts |-> <<>>,
              info |-> <<>>]
        ELSE [reqs |-> g.reqs \o w.reqs, exc |-> w.exc, lg |-> g.lg,
              accounts |-> g.list,
              info |-> w.info]

\* the sets of urls that answer 500 during one get_all_info
DownChoices ==
    {{}} \cup {{LoansUrl(i)} : i \in AccountIds}
         \cup {{ReservationsUrl(i)} : i \in AccountIds}

\* MijnBibliotheek.get_all_info
GetAllInfo ==
    /\ Imported
    /\ \E inp \in AccountsInputs(logged_in), down \in DownChoices :
        \E r \in {MB_get_all_info(logged_in, inp.lin, inp.open, inp.page, down)} :
            /\ logged_in' = r.lg.flag
            /\ validated' = (validated \/ (r.lg.reached /\ ~Raised(r.lg.exc)))
            /\ call' = Call("get_all_info", 0, FALSE, "", r.reqs, r.exc,
                            [accounts |-> r.accounts, info |-> r.info], r.lg)
            /\ UNCHANGED <<br_cookiejar, s_cookies, package>>

-----------------------------------------------------------------------------
(* parsers.py: ExtendResponsePageParser; the same code is inline in
   MijnBibliotheek._parse_extend_response_page *)

\* None.get_text(), None.find_all(...)
NoneAttributeError ==
    Exc("AttributeError", "'NoneType' object has no attribute 'get_text'", None, NoUrl)

SuccessPhrase == "werden succesvol verlengd"
FailurePhrase == "Er ging iets fout bij het verlengen"

\* A <li> of the message list: the phrases its text contains, the text of
\* its <em> ("": it has no <em>) and whether its last word is a date
\* DD/MM/YYYY ("ok") or not ("bad").
Li(phrases, em, date) == [phrases |-> phrases, em |-> em, date |-> date]
\* the html blob of the response: whether it has the <ul> of messages, and
\* the <li> of that list
Blob(ul, lis) == [ul |-> ul, lis |-> lis]
\* the response to an extension: whether it has the <script> with
\* 'Statusbericht' or 'Foutmelding', and the blob in its "data"
ExtendResponse(script, blob) == [script |-> script, blob |-> blob]

\* the result dict of the parser
ExtendResult(success, count, details) ==
    [count |-> count, details |-> details, likely_success |-> success]

\* The loop over msg_lis[1:] from the i-th <li> on: the exception that
\* ended it and the details appended until then.  strptime comes first
\* (ValueError), then li.em.get_text() (AttributeError without <em>).
RECURSIVE Extend_details(_, _)
Extend_details(msg_lis, i) ==
    IF i > Len(msg_lis)
    THEN [exc |-> NoExc, details |-> <<>>]
    ELSE IF msg_lis[i].date = "bad"
    THEN [exc |-> ValueError, details |-> <<>>]
    ELSE IF msg_lis[i].em = ""
    THEN [exc |-> NoneAttributeError, details |-> <<>>]
    ELSE [exc |-> Extend_details(msg_lis, i + 1).exc,
          details |-> <<[title |-> msg_lis[i].em, until |-> "date"]>>
                      \o Extend_details(msg_lis, i + 1).details]

\* ExtendResponsePageParser._parse_extend_response_status_blob
Extend_parse_extend_response_status_blob(blob) ==
    IF ~blob.ul
    THEN Parsed(NoExc, ExtendResult(FALSE, 0, <<>>))
    ELSE IF blob.lis = <<>>
    THEN Parsed(NoExc, ExtendResult(FALSE, 0, <<>>))
    ELSE IF SuccessPhrase \in blob.lis[1].phrases
    THEN IF Extend_details(blob.lis, 2).exc = ValueError
         THEN Parsed(ValueError, <<>>)
         ELSE IF Extend_details(blob.lis, 2).exc = NoneAttributeError
         THEN Parsed(NoExc, ExtendResult(TRUE, Len(blob.lis) - 1,
                                         Extend_details(blob.lis, 2).details))
         ELSE IF FailurePhrase \in blob.lis[1].phrases
         THEN Parsed(NoExc, ExtendResult(FALSE, 0, Extend_details(blob.lis, 2).details))
         ELSE Parsed(NoExc, ExtendResult(TRUE, Len(blob.lis) - 1,
                                         Extend_details(blob.lis, 2).details))
    ELSE Parsed(NoExc, ExtendResult(FALSE, 0, <<>>))

\* ExtendResponsePageParser._extract_html_from_response_script_tag:
\* soup.find("script", ...) is None without the script, and .get_text()
\* on it raises AttributeError
Extend_extract_html_from_response_script_tag(html) ==
    IF ~html.script
    THEN [exc |-> NoneAttributeError, html_blob |-> Blob(FALSE, <<>>)]
    ELSE [exc |-> NoExc, html_blob |-> html.blob]

\* ExtendResponsePageParser.parse
ExtendResponsePageParser_parse(html) ==
    IF Raised(Extend_extract_html_from_response_script_tag(html).exc)
    THEN Parsed(Extend_extract_html_from_response_script_tag(html).exc, <<>>)
    ELSE Extend_parse_extend_response_status_blob(
             Extend_extract_html_from_response_script_tag(html).html_blob)

-----------------------------------------------------------------------------
(* MijnBibliotheek: extending loans *)

ExtendUrl(account_id) == Url("verlengen", account_id, {"loan-ids"})
\* the submission of the extend-loan form
Submit(url) == Request("SUBMIT", url, NoData)

\* answers on opening the extend url: a page with the extend form, a page
\* without it, an HTTPError, a URLError that is not an HTTPError
ExtendOpenOutcomes == {"form", "noform", "http500", "http404", "urlerror"}
\* answers on submitting the form: a response with that code, an HTTPError
ExtendSubmitOutcomes == {"code200", "code202", "http500", "http404"}
NoDetails == [likely_success |-> FALSE, empty |-> TRUE]
Details(likely_success) == [likely_success |-> likely_success, empty |-> FALSE]

\* `if not execute`: extend_loans stops before it submits the form
Simulating(execute) == ~execute

\* extend_loans reporting every HTTPError as ExtendLoanError
ExtendHttpError_any(code, msg) == ExtendLoanError(msg)

\* the `except mechanize.HTTPError` clauses of extend_loans: a 500 is
\* raised as ExtendLoanError, any other HTTPError is re-raised
ExtendHttpError(code, msg) ==
    IF code = 500 THEN ExtendLoanError(msg) ELSE HTTPError(code)

\* extend_loans letting an exception of the details parser out
ExtendDetailsOf_raising(det) ==
    IF det = "raise"
    THEN [exc |-> NoneAttributeError, details |-> NoDetails]
    ELSE [exc |-> NoExc, details |-> Details(det = "true")]

\* The try / `except Exception` around reading the details of the
\* response: the details dict, the empty dict when the parser raised.
ExtendDetailsOf(det) ==
    [exc |-> NoExc,
     details |-> IF det = "raise" THEN NoDetails ELSE Details(det = "true")]

\* a success decided by the status of the response alone
ExtendSuccess_status_only(submit, det) == submit = "code200"

\* `success = True if response.code == 200 else False`, set to False when
\* the details have likely_success False
ExtendSuccess(submit, det) == (submit = "code200") /\ det # "false"

\* MijnBibliotheek.extend_loans: new flag, requests, outcome
MB_extend_loans(flag, extend_url, execute, lin, open, submit, det) ==
    LET lg == EnsureLogin(flag, lin)
        opened == lg.reqs \o <<Get(extend_url)>>
        submitted == opened \o <<Submit(extend_url)>>
        success == ExtendSuccess(submit, det)
        details == ExtendDetailsOf(det).details
        Result(reqs, exc, s, d) ==
            [reqs |-> reqs, exc |-> exc, ret |-> [success |-> s, details |-> d], lg |-> lg]
    IN  IF Raised(lg.exc)
        THEN Result(lg.reqs, lg.exc, FALSE, NoDetails)
        ELSE IF open \in {"http500", "http404"}
        THEN Result(opened,
                    ExtendHttpError(IF open = "http500" THEN 500 ELSE 404,
                                    "Probably invalid extend loan URL"),
                    FALSE, NoDetails)
        ELSE IF open = "urlerror"
        THEN Result(opened, URLError, FALSE, NoDetails)
        ELSE IF open = "noform"
        THEN Result(opened, IncompatibleSourceError("Can not find extend loan form", ""),
                    FALSE, NoDetails)
        ELSE IF Simulating(execute)
        THEN Result(opened, NoExc, FALSE, NoDetails)
        ELSE IF submit \in {"http500", "http404"}
        THEN Result(submitted,
                    ExtendHttpError(IF submit = "http500" THEN 500 ELSE 404,
                                    "Could not extend loans using url"),
                    FALSE, NoDetails)
        ELSE IF Raised(ExtendDetailsOf(det).exc)
        THEN Result(submitted, ExtendDetailsOf(det).exc, FALSE, NoDetails)
        ELSE Result(submitted, NoExc, success, details)

\* The responses to the submission in the model: without the script,
\* without the message list, a success with one extended loan, a success
\* whose item has a date that does not parse, and a failure.
ExtendSubmitResponses ==
    {ExtendResponse(FALSE, Blob(FALSE, <<>>)),
     ExtendResponse(TRUE, Blob(FALSE, <<>>)),
     ExtendResponse(TRUE, Blob(TRUE, <<Li({SuccessPhrase}, "", "bad"), Li({}, "T1", "ok")>>)),
     ExtendResponse(TRUE, Blob(TRUE, <<Li({SuccessPhrase}, "", "bad"), Li({}, "T1", "bad")>>)),
     ExtendResponse(TRUE, Blob(TRUE, <<Li({FailurePhrase}, "", "bad"), Li({}, "T1", "bad")>>))}
OkExtendResponse ==
    ExtendResponse(TRUE, Blob(TRUE, <<Li({SuccessPhrase}, "", "bad"), Li({}, "T1", "ok")>>))

\* what _parse_extend_response_page does on the response: it raises, or
\* returns a dict whose likely_success is True / False
DetailsOutcome(response) ==
    IF Raised(ExtendResponsePageParser_parse(response).exc)
    THEN "raise"
    ELSE IF ExtendResponsePageParser_parse(response).list.likely_success
    THEN "true" ELSE "false"

\* The inputs of extend_loans: every login answer with good answers to
\* the rest, every answer on opening the url, and every answer on
\* submitting the form, with a login that succeeds.
ExtendInputs(flag) ==
    {[open |-> "form", submit |-> "code200", response |-> OkExtendResponse, lin |-> l] :
        l \in LoginInputsFor(flag)}
    \cup {[open |-> o, submit |-> "code200", response |-> OkExtendResponse,
           lin |-> OkLoginInput] : o \in ExtendOpenOutcomes}
    \cup {[open |-> "form", submit |-> sb, response |-> p, lin |-> OkLoginInput] :
             sb \in ExtendSubmitOutcomes, p \in ExtendSubmitResponses}

\* The headers that the methods of MijnBibliotheek set on self._br or on a
\* request: none.  mijnbibliotheek.py has no statement that adds or removes
\* a header (no addheaders, no headers argument, no Request object), in
\* extend_loans or elsewhere.  What mechanize puts on a request by itself is
\* not part of this set.
SetHeaders == {}

\* MijnBibliotheek.extend_loans
ExtendLoans ==
    /\ Imported
    /\ \E account_id \in AccountIds, execute \in BOOLEAN,
       inp \in ExtendInputs(logged_in) :
        \E r \in {MB_extend_loans(logged_in, ExtendUrl(account_id), execute, inp.lin,
                                 inp.open, inp.submit,
                                 DetailsOutcome(inp.response))} :
            /\ logged_in' = r.lg.flag
            /\ validated' = (validated \/ (r.lg.reached /\ ~Raised(r.lg.exc)))
            /\ call' = Call("extend_loans", account_id, execute, "", r.reqs, r.exc,
                            r.ret, r.lg)
                        @@ [input |-> inp, request_headers |-> SetHeaders,
                            headers |-> SetHeaders]
            /\ UNCHANGED <<br_cookiejar, s_cookies, package>>

-----------------------------------------------------------------------------
(* login_handlers.py: LoginByForm *)

\* LoginByForm._log_in
Form_log_in(url, inp) ==
    IF inp.open = "urlerror"
    THEN [reqs |-> <<Get(url)>>,
          exc |-> CanNotConnectError(<<"Error while trying to log in", url>>),
          response |-> NoResponse]
    ELSE IF inp.open = "noform"
    THEN [reqs |-> <<Get(url)>>,
          exc |-> IncompatibleSourceError("Can not find login form", "start_page"),
          response |-> NoResponse]
    ELSE IF inp.submit = "urlerror"
    THEN [reqs |-> <<Get(url), Request("POST", url, FormData)>>,
          exc |-> CanNotConnectError(<<"Error while trying to log in", url>>),
          response |-> NoResponse]
    ELSE [reqs |-> <<Get(url), Request("POST", url, FormData)>>,
          exc |-> NoExc,
          response |-> IF inp.submit = "none" THEN NoResponse ELSE Response(inp.body)]

\* LoginByForm._validate_logged_in
Form_validate_logged_in(html) ==
    IF Profiel \notin html
    THEN IF PrivacyChanged \in html \/ PrivacyAgree \in html
         THEN AuthenticationError(MsgPrivacy)
         ELSE AuthenticationError(MsgNotAccepted)
    ELSE NoExc

\* LoginByForm.login
Form_login(inp) ==
    LET r == Form_log_in(LoginUrl, inp)
        html == IF ~r.response.isNone THEN r.response.body ELSE EmptyHtml
    IN  IF Raised(r.exc)
        THEN [reqs |-> r.reqs, exc |-> r.exc, flag |-> FALSE, reached |-> FALSE,
              html |-> EmptyHtml, transport |-> TransportFailed(inp)]
        ELSE [reqs |-> r.reqs, exc |-> Form_validate_logged_in(html),
              flag |-> FALSE, reached |-> TRUE, html |-> html, transport |-> FALSE]

FormLogin ==
    /\ Imported
    /\ \E inp \in LoginInputs :
        \E r \in {Form_login(inp)} :
            /\ call' = Call("form_login", 0, FALSE, "", r.reqs, r.exc, <<>>, r)
            /\ UNCHANGED <<logged_in, validated, br_cookiejar, s_cookies, package>>

-----------------------------------------------------------------------------
(* login_handlers.py: LoginByOAuth *)

\* A Location header: present or not, and the query parameters of its url
Loc(present, query) == [query |-> query, present |-> present]
NoLoc == Loc(FALSE, {})
\* response.headers.get("location", "") as a url
LocationUrl(page, loc) == IF loc.present THEN Url(page, 0, loc.query) ELSE EmptyUrl
\* parse_qs(...).get(name): the value, or None when the parameter is missing
QueryGet(url, name) == IF name \in url.query THEN "value" ELSE None

Statuses == {200, 302, 303, 404, 500}
Loc1s == {NoLoc} \cup {Loc(TRUE, q) : q \in SUBSET {"hint", "oauth_token", "oauth_callback"}}
Loc3s == {NoLoc, Loc(TRUE, {"oauth_token"}), Loc(TRUE, {"oauth_token", "oauth_verifier"})}

\* What the site answers during LoginByOAuth._log_in: the status and the
\* Location header of the responses to requests (1), (2), (3) and (5), the
\* body of response (5), and `fail`: the request (1..5) on which the
\* transport raises requests' ConnectionError (0: none does).  The status
\* of response (4) is not read by the code.
OAuthDefault ==
    [body |-> {Profiel, AangemeldAls}, fail |-> 0, s1 |-> 302,
     loc1 |-> Loc(TRUE, {"hint", "oauth_token", "oauth_callback"}), s2 |-> 200, s3 |-> 303,
     loc3 |-> Loc(TRUE, {"oauth_token", "oauth_verifier"}), s5 |-> 200]

\* the inputs with every combination of Location headers
OAuthAt4 == {[OAuthDefault EXCEPT !.loc1 = l1, !.loc3 = l3] :
                l1 \in Loc1s, l3 \in Loc3s}

\* Every Location header is combined with the expected statuses and the
\* default body; the unexpected statuses, the transport failures and the
\* bodies are combined with the default headers.
OAuthInputs ==
    {[OAuthDefault EXCEPT !.fail = f] : f \in 1..5}
    \cup {[OAuthDefault EXCEPT !.s1 = s, !.loc1 = l] :
             s \in Statuses \ {302}, l \in {NoLoc, OAuthDefault.loc1}}
    \cup {[OAuthDefault EXCEPT !.s2 = s] : s \in Statuses \ {200}}
    \cup {[OAuthDefault EXCEPT !.s3 = s] : s \in Statuses \ {303}}
    \cup {[OAuthDefault EXCEPT !.s5 = s] : s \in Statuses \ {200}}
    \cup OAuthAt4
    \cup {[OAuthDefault EXCEPT !.body = b] : b \in Bodies}

OAuthEntryUrl == Url("aanmelden", 0, {})
OAuthLoginEndpoint == Url("openbibid/rest/auth/login", 0, {})

\* exceptions of the requests library, of `assert` and of attribute access
ConnectionError == Exc("ConnectionError", "", None, NoUrl)
MissingSchema == Exc("MissingSchema", "Invalid URL '': No scheme supplied", None, NoUrl)
AssertionError == Exc("AssertionError", "", None, NoUrl)
AttributeError == Exc("AttributeError", "'bool' object has no attribute 'text'", None, NoUrl)

\* self._s.get / self._s.post: the request is sent unless the url is empty
\* (MissingSchema); the transport fails on request number `step` when
\* inp.fail = step.
Send(req, step, inp) ==
    IF req.url = EmptyUrl
    THEN [reqs |-> <<>>, exc |-> MissingSchema]
    ELSE IF inp.fail = step
    THEN [reqs |-> <<req>>, exc |-> ConnectionError]
    ELSE [reqs |-> <<req>>, exc |-> NoExc]

\* `assert response.status_code == expected`
AssertStatus(status, expected) == IF status = expected THEN NoExc ELSE AssertionError

\* LoginByOAuth._log_in: the requests issued, the exception raised, what is
\* returned ("True" or "response"), the body of the returned response and
\* the cookies the session received.  Response (2) sets the session id
\* cookie and response (4) the login cookie.
\* the session's cookies after response (2), and after response (4)
SessionCookie == {"sid"}
LoginCookies == {"sid", "login"}
OAuth_log_in(inp) ==
    LET oauth_location_url == LocationUrl("authorize", inp.loc1)
        oauth_callback_url == QueryGet(oauth_location_url, "oauth_callback")
        oauth_token == QueryGet(oauth_location_url, "oauth_token")
        hint == QueryGet(oauth_location_url, "hint")
        data == [hint |-> hint, token |-> oauth_token, callback |-> oauth_callback_url,
                 email |-> USERNAME, password |-> PWD]
        login_location_url == LocationUrl("callback", inp.loc3)
        r1 == Send(Get(OAuthEntryUrl), 1, inp)
        r2 == Send(Get(oauth_location_url), 2, inp)
        r3 == Send(Request("POST", OAuthLoginEndpoint, data), 3, inp)
        r4 == Send(Get(login_location_url), 4, inp)
        r5 == Send(Get(AccountsUrl), 5, inp)
        Out(reqs, exc, ret, cookies) ==
            [body |-> inp.body, reqs |-> reqs, exc |-> exc, ret |-> ret,
             cookies |-> cookies]
    IN  IF Raised(r1.exc)
        THEN Out(r1.reqs, r1.exc, "none", {})
        ELSE IF inp.s1 # 302
        THEN Out(r1.reqs, NoExc, "True", {})
        ELSE IF Raised(r2.exc)
        THEN Out(r1.reqs \o r2.reqs, r2.exc, "none", {})
        ELSE IF Raised(AssertStatus(inp.s2, 200))
        THEN Out(r1.reqs \o r2.reqs, AssertStatus(inp.s2, 200), "none", SessionCookie)
        ELSE IF Raised(r3.exc)
        THEN Out(r1.reqs \o r2.reqs \o r3.reqs, r3.exc, "none", SessionCookie)
        ELSE IF Raised(AssertStatus(inp.s3, 303))
        THEN Out(r1.reqs \o r2.reqs \o r3.reqs, AssertStatus(inp.s3, 303), "none", SessionCookie)
        ELSE IF Raised(r4.exc)
        THEN Out(r1.reqs \o r2.reqs \o r3.reqs \o r4.reqs, r4.exc, "none", SessionCookie)
        ELSE IF Raised(r5.exc)
        THEN Out(r1.reqs \o r2.reqs \o r3.reqs \o r4.reqs \o r5.reqs, r5.exc, "none",
                 LoginCookies)
        ELSE IF Raised(AssertStatus(inp.s5, 200))
        THEN Out(r1.reqs \o r2.reqs \o r3.reqs \o r4.reqs \o r5.reqs,
                 AssertStatus(inp.s5, 200), "none", LoginCookies)
        ELSE Out(r1.reqs \o r2.reqs \o r3.reqs \o r4.reqs \o r5.reqs, NoExc, "response",
                 LoginCookies)

\* LoginByOAuth._validate_logged_in
OAuth_validate_logged_in(html) ==
    IF Profiel \notin html
    THEN IF PrivacyChanged \in html \/ PrivacyAgree \in html
         THEN AuthenticationError(MsgPrivacy)
         ELSE AuthenticationError(MsgNotAccepted)
    ELSE IF AangemeldAls \notin html
    THEN AuthenticationError(MsgNotAccepted2)
    ELSE NoExc

\* LoginByOAuth.login: requests, exception, the page given to validation
\* (when validation was reached), the cookies received, and whether the
\* session's cookie jar was handed to the browser
\* a login that hands the session's jar to the browser before validation
OAuth_login_transfer_first(inp) ==
    LET r == OAuth_log_in(inp)
        v == OAuth_validate_logged_in(r.body)
        Out(exc, reached, html, transfer) ==
            [reqs |-> r.reqs, exc |-> exc, flag |-> FALSE, reached |-> reached,
             html |-> html, transport |-> inp.fail # 0, cookies |-> r.cookies,
             transfer |-> transfer]
    IN  IF Raised(r.exc)
        THEN Out(r.exc, FALSE, EmptyHtml, FALSE)
        ELSE IF r.ret = "True"
        THEN Out(AttributeError, FALSE, EmptyHtml, FALSE)
        ELSE Out(v, TRUE, r.body, TRUE)

OAuth_login(inp) ==
    LET r == OAuth_log_in(inp)
        v == OAuth_validate_logged_in(r.body)
        Out(exc, reached, html, transfer) ==
            [reqs |-> r.reqs, exc |-> exc, flag |-> FALSE, reached |-> reached,
             html |-> html, transport |-> inp.fail # 0, cookies |-> r.cookies,
             transfer |-> transfer]
    IN  IF Raised(r.exc)
        THEN Out(r.exc, FALSE, EmptyHtml, FALSE)
        ELSE IF r.ret = "True"
        THEN Out(AttributeError, FALSE, EmptyHtml, FALSE)
        ELSE Out(v, TRUE, r.body, ~Raised(v))

\* handshakes of one handler that receive cookies
MaxHandshakes == 2

\* the number of the last handshake that left a cookie in the jar
Issued(jar) ==
    IF jar = {}
    THEN 0
    ELSE CHOOSE g \in {c[2] : c \in jar} : \A c \in jar : c[2] <= g

\* The session stores the cookies of a response: a cookie replaces the one
\* of the same name.
SetCookies(jar, names, value) ==
    {c \in jar : c[1] \notin names} \cup {<<n, value>> : n \in names}

\* LoginByOAuth.login.  The browser and the session share one jar once
\* set_cookiejar(self._s.cookies) has run.
OAuthLogin ==
    /\ Imported
    /\ \E inp \in OAuthInputs :
        \E r \in {OAuth_login(inp)} :
            /\ r.cookies # {} => Issued(s_cookies) < MaxHandshakes
            /\ call' = Call("oauth_login", 0, FALSE, "", r.reqs, r.exc, <<>>, r)
                        @@ [input |-> inp]
            /\ s_cookies' = SetCookies(s_cookies, r.cookies, Issued(s_cookies) + 1)
            /\ br_cookiejar' = IF r.transfer THEN "session" ELSE br_cookiejar
            /\ UNCHANGED <<logged_in, validated, package>>

\* the three ways of logging in
NextLogin ==
    \/ Login
    \/ FormLogin
    \/ OAuthLogin

SpecLogin == Init /\ [][NextLogin]_vars

Next ==
    \/ Login
    \/ GetLoans
    \/ GetReservations
    \/ GetAccounts
    \/ GetAllInfo
    \/ ExtendLoans

Spec == Init /\ [][Next]_vars

-----------------------------------------------------------------------------
(* Properties *)

\* some request of the last call is a GET of the url
Fetched(url) == \E i \in DOMAIN call.reqs : call.reqs[i] = Get(url)
\* the last call sent a POST
Posted == \E i \in DOMAIN call.reqs : call.reqs[i].method = "POST"
\* the last call sent a POST with a value that is None
PostedNone ==
    \E i \in DOMAIN call.reqs :
        /\ call.reqs[i].method = "POST"
        /\ None \in {call.reqs[i].data.hint, call.reqs[i].data.token,
                     call.reqs[i].data.callback}

\* C1: login() on an instance that is already authenticated returns at
\* once: it issues no request of the login handshake, raises nothing and
\* leaves the instance authenticated.
C1_LoginIdempotent ==
    [][(logged_in /\ call'.op = "login")
          => (call'.reqs = <<>> /\ ~Raised(call'.exc) /\ logged_in')]_vars

DataOps == {"get_accounts", "get_loans", "get_reservations", "extend_loans"}

\* C2: a call of get_accounts, get_loans, get_reservations or extend_loans
\* runs the login handshake exactly when no handshake of the instance has
\* succeeded yet: the first call that needs it runs it, a call after a
\* failed login runs it again, and no call after a success runs it.
C2_LazyLoginOnce ==
    [][(call'.op \in DataOps) => (call'.login <=> ~validated)]_vars

\* a data call on an instance that was logged in by an earlier call: it
\* went straight to its data request
C2_Witness ==
    /\ call.op \in DataOps
    /\ validated
    /\ ~call.login
    /\ call.reqs # <<>>

\* C3: the logged-in flag is true only if a login handshake ran to its end
\* and its final page passed validation, and after a login() that raises
\* the flag is false.
C3_FlagOnlyAfterValidation ==
    /\ logged_in => validated
    /\ (call.op = "login" /\ Raised(call.exc)) => ~logged_in

LoginOps == {"login", "form_login", "oauth_login"}
HasPrivacyMarker(html) == PrivacyChanged \in html \/ PrivacyAgree \in html

\* C4: login validation ends in one of three ways: success, only if the
\* profile marker is in the page; the privacy-statement AuthenticationError
\* if the profile marker is absent and a privacy marker is present; the
\* generic AuthenticationError if neither is present.
C4_ValidationOutcomes ==
    (call.op \in LoginOps /\ call.reached) =>
        /\ Raised(call.exc) => call.exc.type = "AuthenticationError"
        /\ ~Raised(call.exc) => Profiel \in call.html
        /\ (Profiel \notin call.html /\ HasPrivacyMarker(call.html))
              => call.exc = AuthenticationError(MsgPrivacy)
        /\ (Profiel \notin call.html /\ ~HasPrivacyMarker(call.html))
              => call.exc = AuthenticationError(MsgNotAccepted)

\* MijnBibliotheek.login validated a page with one privacy marker and
\* without the profile marker
C4_Witness ==
    /\ call.op = "login"
    /\ call.reached
    /\ Profiel \notin call.html
    /\ PrivacyAgree \in call.html
    /\ PrivacyChanged \notin call.html
    /\ call.exc.msg = MsgPrivacy

\* the first response is a redirect whose target has no query parameters
AlreadyAuthenticated(inp) ==
    /\ inp.fail # 1
    /\ inp.s1 = 302
    /\ inp.loc1.present
    /\ inp.loc1.query = {}

\* C5: when the first GET of the login-entry url shows that the session is
\* already authenticated, LoginByOAuth.login issues no credential POST and
\* finishes by validating a page body.
C5_ShortCircuit ==
    (call.op = "oauth_login" /\ AlreadyAuthenticated(call.input))
        => (~Posted /\ call.reached)

OAuthParams == {"hint", "oauth_token", "oauth_callback"}

\* a response of the handshake lacks the Location header or an expected
\* query parameter
MissingExpected(inp) ==
    /\ inp.fail = 0
    /\ inp.s1 = 302
    /\ \/ ~inp.loc1.present
       \/ inp.loc1.query # {} /\ inp.loc1.query # OAuthParams
       \/ /\ inp.loc1.query = OAuthParams
          /\ inp.s2 = 200
          /\ inp.s3 = 303
          /\ (~inp.loc3.present \/ "oauth_verifier" \notin inp.loc3.query)

\* C6: when a response of the handshake lacks the Location header or an
\* expected query parameter, LoginByOAuth.login raises
\* IncompatibleSourceError and sends no credential POST with a missing
\* value.
C6_MissingParameter ==
    (call.op = "oauth_login" /\ MissingExpected(call.input))
        => (call.exc.type = "IncompatibleSourceError" /\ ~PostedNone)

\* the first unexpected status the handshake meets (0: none)
UnexpectedStatus(inp) ==
    IF inp.fail = 1 THEN 0
    ELSE IF inp.s1 \notin {200, 302} THEN inp.s1
    ELSE IF inp.s1 # 302 \/ ~inp.loc1.present \/ inp.fail = 2 THEN 0
    ELSE IF inp.s2 # 200 THEN inp.s2
    ELSE IF inp.fail = 3 THEN 0
    ELSE IF inp.s3 # 303 THEN inp.s3
    ELSE IF ~inp.loc3.present \/ inp.fail \in {4, 5} THEN 0
    ELSE IF inp.s5 # 200 THEN inp.s5
    ELSE 0

\* C7: an unexpected status during the handshake raises TemporarySiteError
\* when it is 500 or above and IncompatibleSourceError when it is below.
C7_StatusClassified ==
    (call.op = "oauth_login" /\ UnexpectedStatus(call.input) # 0)
        => call.exc.type = IF UnexpectedStatus(call.input) >= 500
                           THEN "TemporarySiteError"
                           ELSE "IncompatibleSourceError"

\* C8: when the login endpoint cannot be reached, login() raises
\* CanNotConnectError carrying the url.
C8_CanNotConnect ==
    (call.op = "login" /\ call.transport)
        => (call.exc.type = "CanNotConnectError" /\ call.exc.url = LoginUrl)

\* the clauses of C9 for one counter of one account: the fetch is issued
\* only if `may_fetch`, and when `must_skip` it is not issued and the entry
\* of a returned result holds the empty list
FetchRule(url, list, may_fetch, must_skip) ==
    /\ Fetched(url) => may_fetch
    /\ must_skip => (~Fetched(url) /\ list = <<>>)

\* the items get_all_info returned for the k-th account (none when it raised)
EntryOf(k, field) ==
    IF k \in DOMAIN call.ret.info THEN call.ret.info[k][field] ELSE <<>>

\* C9 as claimed: get_all_info fetches the loans (reservations) page of an
\* account only if its count is a number other than zero; when the count
\* is unknown or zero the fetch is not issued and the entry is empty.
C9_FetchOnlyConfirmedNonZero ==
    (call.op = "get_all_info") =>
        \A k \in DOMAIN call.ret.accounts :
            LET a == call.ret.accounts[k]
            IN  /\ FetchRule(LoansUrl(a.id), EntryOf(k, "loans"),
                             a.loans_count \notin {NoCount, 0},
                             a.loans_count \in {NoCount, 0})
                /\ FetchRule(ReservationsUrl(a.id), EntryOf(k, "reservations"),
                             a.reservations_count \notin {NoCount, 0},
                             a.reservations_count \in {NoCount, 0})

\* C9 amended: get_all_info fetches the loans (reservations) page of an
\* account only if its count is not a confirmed zero, that is when it is a
\* number other than zero or unknown; when the count is zero the fetch is
\* not issued and the entry is empty.
C9_FetchUnlessConfirmedZero ==
    (call.op = "get_all_info") =>
        \A k \in DOMAIN call.ret.accounts :
            LET a == call.ret.accounts[k]
            IN  /\ FetchRule(LoansUrl(a.id), EntryOf(k, "loans"),
                             a.loans_count # 0, a.loans_count = 0)
                /\ FetchRule(ReservationsUrl(a.id), EntryOf(k, "reservations"),
                             a.reservations_count # 0, a.reservations_count = 0)

\* get_all_info returned for an account with an unknown loans count, whose
\* loans page it fetched, and a zero reservations count, whose page it did
\* not fetch
C9_Witness ==
    /\ call.op = "get_all_info"
    /\ ~Raised(call.exc)
    /\ \E k \in DOMAIN call.ret.accounts :
          LET a == call.ret.accounts[k]
          IN  /\ a.loans_count = NoCount
              /\ Fetched(LoansUrl(a.id))
              /\ call.ret.info[k].loans # <<>>
              /\ a.reservations_count = 0
              /\ ~Fetched(ReservationsUrl(a.id))
              /\ call.ret.info[k].reservations = <<>>

\* the cause an item-access error reports ("none": the exception is not
\* an ItemAccessError)
AccessCause(exc) ==
    IF exc.type # "ItemAccessError" THEN "none"
    ELSE IF exc.msg = MsgLikelyAccountId THEN "not found"
    ELSE IF exc.msg = MsgReasonUnknown THEN "unknown"
    ELSE "other"

\* the cause the error must report for an answer of the site
ExpectedCause(open) ==
    IF open = "http404" THEN "not found"
    ELSE IF open = "http500" THEN "server error"
    ELSE "other"

\* C10: when the loans (reservations) page cannot be opened, get_loans /
\* get_reservations raises the item-access error, and the error tells page
\* not found, server error and any other network failure apart.
C10_AccessErrorCauses ==
    (call.op \in {"get_loans", "get_reservations"}
        /\ call.open \in {"http500", "http404", "urlerror"})
        => (call.exc.type = "ItemAccessError"
            /\ AccessCause(call.exc) = ExpectedCause(call.open))

-----------------------------------------------------------------------------
(* get_loans / get_reservations: exceptions of the page parsers *)

\* the text of a page as the site sent it; the empty page is the empty string
RawBody(page) == IF page = EmptyPage THEN "" ELSE "page_html"

\* the call opened the page and the parser of its kind raised on it
ParserRaised ==
    /\ call.op \in {"get_loans", "get_reservations"}
    /\ call.open = "ok"
    /\ Raised((IF call.op = "get_loans"
               THEN MB_parse_account_loan_page(call.page)
               ELSE MB_parse_account_reservations_page(call.page)).exc)

\* C11: in get_loans and get_reservations an exception of the page parser
\* is raised to the caller as IncompatibleSourceError whose html_body is the
\* raw body of the page that was parsed.
C11_ParserErrorCarriesBody ==
    ParserRaised => (/\ call.exc.type = "IncompatibleSourceError"
                     /\ call.exc.html_body = RawBody(call.page))

-----------------------------------------------------------------------------
(* parsers.py: LoansListPageParser *)

\* longest list of sibling nodes in a page given to a parser
MaxNodes == 3

\* A text is a sequence of parts, the empty string the empty sequence.
EmptyString == <<>>
BaseUrl == "https://city.bibliotheek.be"
AccId == "123456"
InputId == "6207416"
ExtendHref == "/mijn-bibliotheek/lidmaatschappen/374052/uitleningen/verlengen?loan-ids=6207416"
\* urllib.parse.urljoin of the base url and an absolute path
UrlJoin(base, path) == <<base, path>>

\* A loan card (a <div> child of the loan wrapper): whether it has the
\* title <h3> with its link, whether it has the cover <img>, its from-to
\* dates ("ok", "bad": not DD/MM/YYYY, "absent": no from-to div) and its
\* extend section ("absent", "not_possible": the text 'Verlengen niet
\* mogelijk', "link_input": <a href> and <input id>, "input_only",
\* "link_only", "empty_div": the section without link, input or that text,
\* "link_input_noid": <a href> and an <input> without id).
LoanCard(title, cover, dates, extend) ==
    [title |-> title, cover |-> cover, dates |-> dates, extend |-> extend]
DateShapes == {"ok", "bad", "absent"}
ExtendShapes == {"absent", "not_possible", "link_input", "input_only", "link_only",
                 "empty_div", "link_input_noid"}
\* the extend sections without <a>, and those with <a> and <input>
NoLinkShapes == {"input_only", "empty_div"}
LinkInputShapes == {"link_input", "link_input_noid"}
LoanCards == {LoanCard(t, c, d, e) :
                 t \in BOOLEAN, c \in BOOLEAN, d \in DateShapes, e \in ExtendShapes}
OkCard == LoanCard(TRUE, TRUE, "ok", "link_input")

\* A child of the loan wrapper: its tag name, its text (of a header) and
\* its card (of a div).
LoanNode(name, text, card) == [name |-> name, text |-> text, card |-> card]
Header(text) == LoanNode("h2", text, OkCard)
CardNode(card) == LoanNode("div", "", card)
OtherNode == LoanNode("p", "", OkCard)

\* A loans page: its text outside the wrapper ("": nothing, "text":
\* something else), whether it has the loan wrapper, whether it contains
\* the site's message 'Er is een fout opgetreden bij het ophalen van
\* informatie uit het bibliotheeksysteem. Probeer het later opnieuw.', and
\* the children of the wrapper in document order.
LoansHtml(text, wrapper, banner, nodes) ==
    [text |-> text, wrapper |-> wrapper, nodes |-> nodes, banner |-> banner]
EmptyLoansHtml == LoansHtml("", FALSE, FALSE, <<>>)
OtherLoansHtml == LoansHtml("text", FALSE, FALSE, <<>>)
BannerLoansHtml == LoansHtml("text", FALSE, TRUE, <<>>)

\* LoansListPageParser._get_loan_info_from_div: the exception raised or
\* the Loan.  The sub-extractions run in the order of the code and each
\* catches AttributeError only: a missing cover <img> is subscripted
\* (TypeError), a date that does not match is a ValueError, a missing
\* <a> of the extend section is subscripted (TypeError).
Loans_get_loan_info_from_div(card, branch, base_url, acc_id) ==
    IF ~card.cover
    THEN [exc |-> TypeError, loan |-> <<>>]
    ELSE IF card.dates = "bad"
    THEN [exc |-> ValueError, loan |-> <<>>]
    ELSE IF card.extend \in NoLinkShapes
    THEN [exc |-> TypeError, loan |-> <<>>]
    ELSE [exc |-> NoExc,
          loan |-> <<[account_id |-> acc_id,
                      branchname |-> branch,
                      title |-> IF card.title THEN "title" ELSE "",
                      extend_url |-> IF card.extend \in LinkInputShapes
                                     THEN UrlJoin(base_url, ExtendHref)
                                     ELSE EmptyString,
                      loan_from |-> IF card.dates = "ok" THEN "date" ELSE None,
                      loan_till |-> IF card.dates = "ok" THEN "date" ELSE None,
                      extendable |-> CASE card.extend = "not_possible" -> "False"
                                       [] card.extend \in LinkInputShapes -> "True"
                                       [] OTHER -> None,
                      extend_id |-> CASE card.extend = "link_input" -> InputId
                                      [] card.extend = "link_input_noid" -> None
                                      [] OTHER -> ""]>>]

\* the loop of LoansListPageParser.parse over the children from the i-th on
RECURSIVE Loans_walk(_, _, _, _, _)
Loans_walk(children, i, branch_name, base_url, acc_id) ==
    IF i > Len(children)
    THEN Parsed(NoExc, <<>>)
    ELSE IF children[i].name = "h2"
    THEN Loans_walk(children, i + 1, children[i].text, base_url, acc_id)
    ELSE IF children[i].name = "div"
    THEN IF Raised(Loans_get_loan_info_from_div(children[i].card, branch_name,
                                                base_url, acc_id).exc)
         THEN Parsed(Loans_get_loan_info_from_div(children[i].card, branch_name,
                                                  base_url, acc_id).exc, <<>>)
         ELSE IF Raised(Loans_walk(children, i + 1, branch_name, base_url, acc_id).exc)
         THEN Loans_walk(children, i + 1, branch_name, base_url, acc_id)
         ELSE Parsed(NoExc,
                     Loans_get_loan_info_from_div(children[i].card, branch_name,
                                                  base_url, acc_id).loan
                     \o Loans_walk(children, i + 1, branch_name, base_url, acc_id).list)
    ELSE Loans_walk(children, i + 1, branch_name, base_url, acc_id)

\* a parse that leaves out the first child of the wrapper
LoansListPageParser_parse_skipfirst(html, base_url, acc_id) ==
    IF ~html.wrapper
    THEN Parsed(NoExc, <<>>)
    ELSE Loans_walk(html.nodes, 2, "??", base_url, acc_id)

\* LoansListPageParser.parse
LoansListPageParser_parse(html, base_url, acc_id) ==
    IF ~html.wrapper
    THEN Parsed(NoExc, <<>>)
    ELSE Loans_walk(html.nodes, 1, "??", base_url, acc_id)

\* the sequences over S of length at most n
RECURSIVE SeqsUpTo(_, _)
SeqsUpTo(S, n) ==
    IF n = 0 THEN {<<>>}
    ELSE SeqsUpTo(S, n - 1)
         \cup {Append(q, x) : q \in {p \in SeqsUpTo(S, n - 1) : Len(p) = n - 1}, x \in S}

\* The loans pages given to the parser: the empty string, a text without
\* the wrapper, the site's message with and without the wrapper, every
\* card alone in the wrapper, and every list of at most MaxNodes children
\* among two headers, a good card, a good card without title that can not
\* be extended, a card with a bad date and another tag.
UntitledCard == LoanCard(FALSE, TRUE, "ok", "not_possible")
LoanNodes == {Header("A"), Header("B"), CardNode(OkCard), CardNode(UntitledCard),
              CardNode(LoanCard(TRUE, TRUE, "bad", "link_input")), OtherNode}
LoansHtmls ==
    {EmptyLoansHtml, OtherLoansHtml, BannerLoansHtml, LoansHtml("text", TRUE, TRUE, <<>>)}
    \cup {LoansHtml("", TRUE, FALSE, <<CardNode(c)>>) : c \in LoanCards}
    \cup {LoansHtml("", TRUE, FALSE, q) : q \in SeqsUpTo(LoanNodes, MaxNodes)}

\* a parser given its input, before it runs
ParserInput(parser, input) == [op |-> "input", input |-> input, parser |-> parser]
\* a parser after it ran: the exception it raised, or what it returned
ParserOutput(op, input, exc, ret) == [exc |-> exc, op |-> op, ret |-> ret, input |-> input]

\* LoansListPageParser(html, base_url, account_id).parse()
ParseLoans ==
    /\ Imported
    /\ call.op = "input" /\ call.parser = "loans"
    /\ \E r \in {LoansListPageParser_parse(call.input, BaseUrl, AccId)} :
           call' = ParserOutput("LoansListPageParser.parse", call.input, r.exc, r.list)
    /\ UNCHANGED <<logged_in, validated, br_cookiejar, s_cookies, package>>

-----------------------------------------------------------------------------
(* parsers.py: ReservationsPageParser *)

\* A child of the hold wrapper: its 'Aangevraagd op' date and its
\* 'Aanvraag geldig tot' date ("ok", "bad": not DD/MM/YYYY, "absent": no
\* such <p>), whether it has the title <h2> with its link, and its fourth
\* section ("absent", "waiting": a <h3> without 'Klaar om af te halen',
\* "ready": that text and a <strong> date, "ready_bad": the date does not
\* parse, "ready_nodate": no <strong>).
HoldCard(request_on, valid_till, title, avail) ==
    [title |-> title, request_on |-> request_on, valid_till |-> valid_till,
     avail |-> avail]
AvailShapes == {"absent", "waiting", "ready", "ready_bad", "ready_nodate"}
HoldCards == {HoldCard(r, v, t, a) :
                 r \in DateShapes, v \in DateShapes, t \in BOOLEAN, a \in AvailShapes}

\* a reservations page: its text outside the wrapper, whether it has the
\* hold wrapper, and the children of the wrapper
HoldsHtml(text, wrapper, nodes) == [text |-> text, wrapper |-> wrapper, nodes |-> nodes]

\* one pass of the loop of ReservationsPageParser.parse: the exception
\* raised (strptime, outside what `except AttributeError` catches) or the
\* Reservation
Holds_get_reservation(child) ==
    IF child.request_on = "bad" \/ child.valid_till = "bad" \/ child.avail = "ready_bad"
    THEN [exc |-> ValueError, hold |-> <<>>]
    ELSE [exc |-> NoExc,
          hold |-> <<[title |-> IF child.title THEN "title" ELSE "",
                      request_on |-> IF child.request_on = "ok" THEN "date" ELSE None,
                      valid_till |-> IF child.valid_till = "ok" THEN "date" ELSE None,
                      available |-> IF child.avail \in {"ready", "ready_nodate"}
                                    THEN "True" ELSE "False",
                      available_till |-> IF child.avail = "ready" THEN "date"
                                         ELSE None]>>]

\* the loop of ReservationsPageParser.parse over the children from the i-th on
RECURSIVE Holds_walk(_, _)
Holds_walk(children, i) ==
    IF i > Len(children)
    THEN Parsed(NoExc, <<>>)
    ELSE IF Raised(Holds_get_reservation(children[i]).exc)
    THEN Parsed(Holds_get_reservation(children[i]).exc, <<>>)
    ELSE IF Raised(Holds_walk(children, i + 1).exc)
    THEN Holds_walk(children, i + 1)
    ELSE Parsed(NoExc, Holds_get_reservation(children[i]).hold
                       \o Holds_walk(children, i + 1).list)

\* ReservationsPageParser.parse walking the children of a wrapper it did
\* not find (None.find_all)
ReservationsPageParser_parse_nowrapper(html) ==
    IF ~html.wrapper
    THEN Parsed(TypeError, <<>>)
    ELSE Holds_walk(html.nodes, 1)

\* ReservationsPageParser.parse
ReservationsPageParser_parse(html) ==
    IF ~html.wrapper
    THEN Parsed(NoExc, <<>>)
    ELSE Holds_walk(html.nodes, 1)

\* The reservations pages given to the parser: the empty string, a text
\* without the wrapper, every child alone in the wrapper, and every list
\* of at most MaxNodes children among a good card, a card with a bad date
\* and a child with nothing of a card.
HoldNodes == {HoldCard("ok", "ok", TRUE, "waiting"), HoldCard("bad", "ok", TRUE, "waiting"),
              HoldCard("absent", "absent", FALSE, "absent")}
HoldsHtmls ==
    {HoldsHtml("", FALSE, <<>>), HoldsHtml("text", FALSE, <<>>)}
    \cup {HoldsHtml("", TRUE, <<c>>) : c \in HoldCards}
    \cup {HoldsHtml("", TRUE, q) : q \in SeqsUpTo(HoldNodes, MaxNodes)}

\* ReservationsPageParser(html).parse()
ParseReservations ==
    /\ Imported
    /\ call.op = "input" /\ call.parser = "reservations"
    /\ \E r \in {ReservationsPageParser_parse(call.input)} :
           call' = ParserOutput("ReservationsPageParser.parse", call.input, r.exc, r.list)
    /\ UNCHANGED <<logged_in, validated, br_cookiejar, s_cookies, package>>

-----------------------------------------------------------------------------
(* parsers.py: AccountsListPageParser *)

\* an accounts page: its text outside the library divs and its account cards
AccountsHtml(text, cards) == [text |-> text, cards |-> cards]

\* AccountsListPageParser.parse: the same code as
\* MijnBibliotheek._parse_accounts_list_page
AccountsListPageParser_parse(html) == MB_parse_accounts_list_page(html.cards, <<>>)

\* the accounts pages given to the parser: the empty string, a text without
\* a library div, and the pages the site answers with
AccountsHtmls ==
    {AccountsHtml("", <<>>), AccountsHtml("text", <<>>)}
    \cup {AccountsHtml("", p) : p \in AccountPages}

\* AccountsListPageParser(html, base_url).parse()
ParseAccounts ==
    /\ Imported
    /\ call.op = "input" /\ call.parser = "accounts"
    /\ \E r \in {AccountsListPageParser_parse(call.input)} :
           call' = ParserOutput("AccountsListPageParser.parse", call.input, r.exc, r.list)
    /\ UNCHANGED <<logged_in, validated, br_cookiejar, s_cookies, package>>

-----------------------------------------------------------------------------
(* parsers.py: ExtendResponsePageParser applied to its inputs *)

\* The responses given to the parser: without the script; with a blob
\* without the list; and with a first <li> of any phrases followed by at
\* most MaxNodes <li> with one of two titles or none and a date that
\* parses or not.
FirstLis == {Li(p, "", "bad") : p \in SUBSET {SuccessPhrase, FailurePhrase}}
LaterLis == {Li({}, e, d) : e \in {"", "T1", "T2"}, d \in {"ok", "bad"}}
ExtendResponses ==
    {ExtendResponse(FALSE, Blob(FALSE, <<>>)), ExtendResponse(TRUE, Blob(FALSE, <<>>)),
     ExtendResponse(TRUE, Blob(TRUE, <<>>))}
    \cup {ExtendResponse(TRUE, Blob(TRUE, <<f>> \o q)) :
              f \in FirstLis, q \in SeqsUpTo(LaterLis, MaxNodes)}

\* ExtendResponsePageParser(html).parse()
ParseExtendResponse ==
    /\ Imported
    /\ call.op = "input" /\ call.parser = "extend"
    /\ \E r \in {ExtendResponsePageParser_parse(call.input)} :
           call' = ParserOutput("ExtendResponsePageParser.parse", call.input, r.exc, r.list)
    /\ UNCHANGED <<logged_in, validated, br_cookiejar, s_cookies, package>>

-----------------------------------------------------------------------------
(* parsers.py: each parser applied to each of its inputs *)

InitParsers ==
    /\ package \in Packages
    /\ logged_in = FALSE
    /\ validated = FALSE
    /\ br_cookiejar = "own"
    /\ s_cookies = {}
    /\ IF Imported
       THEN call \in {ParserInput("loans", h) : h \in LoansHtmls}
                    \cup {ParserInput("reservations", h) : h \in HoldsHtmls}
                    \cup {ParserInput("accounts", h) : h \in AccountsHtmls}
                    \cup {ParserInput("extend", h) : h \in ExtendResponses}
       ELSE call = Call("import", 0, FALSE, "", <<>>, ImportError, <<>>, NoLogin)

NextParsers == ParseLoans \/ ParseReservations \/ ParseAccounts \/ ParseExtendResponse

SpecParsers == InitParsers /\ [][NextParsers]_vars

-----------------------------------------------------------------------------
(* Properties of the parsers *)

PageParsers == {"LoansListPageParser.parse", "ReservationsPageParser.parse",
                "AccountsListPageParser.parse"}

\* the input of a page parser has none of the containers the parser looks
\* for, and is not the site's 'try again later' message
NothingToParse ==
    /\ call.op \in PageParsers
    /\ CASE call.op = "LoansListPageParser.parse" ->
               ~call.input.wrapper /\ ~call.input.banner
         [] call.op = "ReservationsPageParser.parse" -> ~call.input.wrapper
         [] call.op = "AccountsListPageParser.parse" -> call.input.cards = <<>>

\* C12: on a loans page without the loan wrapper that contains the site's
\* 'service temporarily unavailable' message, LoansListPageParser.parse
\* raises TemporarySiteError and does not return an empty list.
C12_BannerRaisesTemporarySiteError ==
    (call.op = "LoansListPageParser.parse" /\ ~call.input.wrapper /\ call.input.banner)
        => call.exc.type = "TemporarySiteError"

\* C13: for the empty string and for a text with none of the expected
\* containers (and without the service-unavailable message) the accounts,
\* loans and reservations parsers return an empty list and raise nothing.
C13_NothingToParseGivesEmptyList ==
    NothingToParse => (~Raised(call.exc) /\ call.ret = <<>>)

\* a reservations parser ran on a text that is not empty and has no wrapper
C13_Witness ==
    /\ call.op = "ReservationsPageParser.parse"
    /\ call.input.text = "text" /\ ~call.input.wrapper
    /\ call.ret = <<>>

\* the extend-response parser ran on a response whose message list has a
\* first item
ExtendParsedList ==
    /\ call.op = "ExtendResponsePageParser.parse"
    /\ call.input.script /\ call.input.blob.ul /\ call.input.blob.lis # <<>>

\* C18: when the first item of the message list contains 'Er ging iets
\* fout bij het verlengen', the extend-response parser returns
\* likely_success False, count 0 and no details, whatever else the first
\* item and the other items contain.
C18_FailurePhraseForcesNoSuccess ==
    (ExtendParsedList /\ FailurePhrase \in call.input.blob.lis[1].phrases)
        => (~Raised(call.exc) /\ call.ret = ExtendResult(FALSE, 0, <<>>))

\* the response lacks the script or the message list, or an item after
\* the first lacks its <em> or a date that parses
StructuralMismatch ==
    /\ call.op = "ExtendResponsePageParser.parse"
    /\ \/ ~call.input.script
       \/ ~call.input.blob.ul
       \/ \E i \in 2..Len(call.input.blob.lis) :
              call.input.blob.lis[i].em = "" \/ call.input.blob.lis[i].date = "bad"

\* C19: on any structural mismatch the extend-response parser returns
\* likely_success False, count 0 and no details and raises nothing; it
\* never returns likely_success True with a count other than the number
\* of details.
C19_MismatchGivesEmptyResult ==
    /\ StructuralMismatch
           => (~Raised(call.exc) /\ call.ret = ExtendResult(FALSE, 0, <<>>))
    /\ (call.op = "ExtendResponsePageParser.parse" /\ ~Raised(call.exc)
            /\ call.ret.likely_success)
           => call.ret.count = Len(call.ret.details)

-----------------------------------------------------------------------------
(* Properties of extend_loans *)

\* the last call submitted the extend-loan form / opened the extend url
Submitted == \E i \in DOMAIN call.reqs : call.reqs[i].method = "SUBMIT"
OpenedExtendUrl == call.op = "extend_loans" /\ Fetched(ExtendUrl(call.account))
SimulatedResult == [success |-> FALSE, details |-> NoDetails]

\* extend_loans got past its login step: the instance is logged in when
\* the call ends
LoginEnsured == call.op = "extend_loans" /\ logged_in

\* C14: extend_loans with execute false, once login is ensured, returns the
\* simulated not-successful result and sends no request to the extend url,
\* neither the GET of it nor the submission of its form.
C14_SimulatedAfterLogin ==
    (LoginEnsured /\ ~call.execute)
        => (~OpenedExtendUrl /\ ~Submitted /\ ~Raised(call.exc)
            /\ call.ret = SimulatedResult)

\* the status of the HTTP error that answered the extend url or the
\* submission of the form in the last call, 0 if there was none
ExtendHttpStatus ==
    IF ~OpenedExtendUrl THEN 0
    ELSE IF call.input.open \in {"http500", "http404"}
    THEN (IF call.input.open = "http500" THEN 500 ELSE 404)
    ELSE IF Submitted /\ call.input.submit \in {"http500", "http404"}
    THEN (IF call.input.submit = "http500" THEN 500 ELSE 404)
    ELSE 0

\* C15: extend_loans raises ExtendLoanError on an HTTP 500 answer to the
\* extension, so that no result is returned; any other HTTP error is
\* raised, and not as ExtendLoanError.
C15_Http500IsExtendLoanError ==
    /\ ExtendHttpStatus = 500 => call.exc.type = "ExtendLoanError"
    /\ ExtendHttpStatus \notin {0, 500}
           => (Raised(call.exc) /\ call.exc.type # "ExtendLoanError")

C15_Witness ==
    /\ OpenedExtendUrl /\ call.execute /\ Submitted
    /\ call.input.submit = "http500"
    /\ call.exc.type = "ExtendLoanError"

\* C16: extend_loans sets a Referer header before it sends the extension
\* request, and when the call ends, however it ends, that header is no
\* longer set.  (request_headers: the headers the method had set when it
\* sent the request; headers: those set when the call ended.)
C16_TemporaryReferer ==
    /\ OpenedExtendUrl => "Referer" \in call.request_headers
    /\ call.op = "extend_loans" => "Referer" \notin call.headers

\* the submission of the last call was answered with a response
GotExtendResponse ==
    /\ OpenedExtendUrl /\ call.execute /\ Submitted
    /\ call.input.submit \in {"code200", "code202"}

\* C17: once the submission of extend_loans(execute=True) has returned a
\* response, extend_loans returns normally; when reading the details from
\* the response fails, the details are the empty dict.
C17_DetailsNeverRaise ==
    GotExtendResponse
        => /\ ~Raised(call.exc)
           /\ DetailsOutcome(call.input.response) = "raise"
                  => call.ret.details = NoDetails

C17_Witness ==
    /\ GotExtendResponse
    /\ ~call.input.response.script
    /\ ~Raised(call.exc) /\ call.ret.details = NoDetails

-----------------------------------------------------------------------------
(* Properties of get_accounts *)

\* the activity endpoint of a membership
ActivityUrl(id) == Url("activities", id, {})
\* the number of requests of the last call to that url
TimesFetched(url) == Cardinality({i \in DOMAIN call.reqs : call.reqs[i] = Get(url)})

\* C20: for a membership whose hasError flag is true get_accounts sends no
\* request to the activity endpoint and returns an Account with
\* loans_count None and reservations_count None; for a membership whose
\* flag is false it sends exactly one request to the activity endpoint.
C20_ErrorMembershipsNotFetched ==
    (call.op = "get_accounts" /\ ~Raised(call.exc))
        => \A i \in DOMAIN call.ret :
              IF call.has_error[call.ret[i].id]
              THEN /\ TimesFetched(ActivityUrl(call.ret[i].id)) = 0
                   /\ call.ret[i].loans_count = NoCount
                   /\ call.ret[i].reservations_count = NoCount
              ELSE TimesFetched(ActivityUrl(call.ret[i].id)) = 1

\* C21: when the answer to get_accounts is a membership listing whose member
\* lacks the hasError key, or is not valid JSON, get_accounts raises
\* IncompatibleSourceError and returns no list of accounts.
C21_BadPayloadRaises ==
    (call.op = "get_accounts" /\ call.payload # "html")
        => (call.exc.type = "IncompatibleSourceError" /\ call.ret = <<>>)

-----------------------------------------------------------------------------
(* Properties of LoansListPageParser *)

\* the loans parser returned a list
LoansParsed == call.op = "LoansListPageParser.parse" /\ ~Raised(call.exc)
\* values of Loan.extendable other than True
NotExtendable == {"False", None}
\* an extend_id that is no identifier: the empty string, or None
NoExtendId == {"", None}

\* C22: in every Loan the loans parser returns, extend_url and extend_id
\* are both the empty string exactly when extendable is False or None, and
\* extendable True comes with a non-empty extend_url and a non-empty
\* extend_id.
C22_ExtendFieldsEmptyIffNotExtendable ==
    LoansParsed
        => \A i \in DOMAIN call.ret :
              /\ (call.ret[i].extend_url = EmptyString /\ call.ret[i].extend_id = "")
                    <=> call.ret[i].extendable \in NotExtendable
              /\ call.ret[i].extendable = "True"
                    => (call.ret[i].extend_url # EmptyString
                        /\ call.ret[i].extend_id \notin NoExtendId)

\* the parser ran on a wrapper whose only child is a card with a cover and
\* readable dates (or none), whose extend section is one of `shapes`
OneCardWith(shapes) ==
    /\ call.op = "LoansListPageParser.parse"
    /\ call.input.wrapper
    /\ Len(call.input.nodes) = 1
    /\ call.input.nodes[1].name = "div"
    /\ call.input.nodes[1].card.cover
    /\ call.input.nodes[1].card.dates # "bad"
    /\ call.input.nodes[1].card.extend \in shapes

\* the extend sections with neither a link nor an input id nor the text
\* 'Verlengen niet mogelijk': no section at all, or a section without them
NoExtendAction == {"absent", "empty_div"}

\* C23: for a loan card with neither an extend link nor an input id (and
\* without the 'not extendable' text) the loans parser raises nothing and
\* returns a Loan with extendable None, extend_url "" and extend_id "".
C23_NoExtendActionGivesUnknown ==
    OneCardWith(NoExtendAction)
        => /\ ~Raised(call.exc)
           /\ Len(call.ret) = 1
           /\ call.ret[1].extendable = None
           /\ call.ret[1].extend_url = EmptyString
           /\ call.ret[1].extend_id = ""

\* <base_url>/mijn-bibliotheek/lidmaatschappen/<account_id>/uitleningen/verlengen?loan-ids=<id>
SynthesizedExtendUrl(base_url, acc_id, id) ==
    <<base_url, "/mijn-bibliotheek/lidmaatschappen/", acc_id,
      "/uitleningen/verlengen?loan-ids=", id>>
InputOnly == {"input_only"}

\* C24: for a loan card whose extend section has an input with an id and no
\* link, the loans parser returns a Loan with extendable True, extend_id
\* the id of the input and extend_url built from the base url, the account
\* id and the id of the input.
C24_InputIdGivesSynthesizedUrl ==
    OneCardWith(InputOnly)
        => /\ ~Raised(call.exc)
           /\ Len(call.ret) = 1
           /\ call.ret[1].extendable = "True"
           /\ call.ret[1].extend_id = InputId
           /\ call.ret[1].extend_url = SynthesizedExtendUrl(BaseUrl, AccId, InputId)

\* the positions of the cards among the children of the wrapper
CardIndices(nodes) == {i \in DOMAIN nodes : nodes[i].name = "div"}
\* the position of the k-th card
KthCard(nodes, k) ==
    CHOOSE i \in CardIndices(nodes) :
        Cardinality({j \in CardIndices(nodes) : j < i}) = k - 1
\* the positions of the headers before position i
HeadersBefore(nodes, i) == {j \in 1..(i - 1) : nodes[j].name = "h2"}
\* the text of the nearest header before position i, "??" without one
NearestHeader(nodes, i) ==
    IF HeadersBefore(nodes, i) = {}
    THEN "??"
    ELSE nodes[CHOOSE j \in HeadersBefore(nodes, i) :
                   \A h \in HeadersBefore(nodes, i) : h <= j].text

\* C25: the list the loans parser returns has exactly one Loan per card
\* child of the wrapper, in the order of the cards, and the branchname of
\* each Loan is the text of the nearest header before its card ("??" when
\* there is none).
C25_OneLoanPerCardWithNearestHeader ==
    (LoansParsed /\ call.input.wrapper)
        => /\ Len(call.ret) = Cardinality(CardIndices(call.input.nodes))
           /\ \A k \in DOMAIN call.ret :
                 /\ call.ret[k].branchname
                       = NearestHeader(call.input.nodes, KthCard(call.input.nodes, k))
                 /\ call.ret[k].title
                       = (IF call.input.nodes[KthCard(call.input.nodes, k)].card.title
                          THEN "title" ELSE "")

\* two different cards were parsed, a header between them
C25_Witness ==
    /\ LoansParsed
    /\ Len(call.input.nodes) = 3
    /\ call.input.nodes[2].name = "h2"
    /\ Len(call.ret) = 2
    /\ call.ret[1].branchname = "??"
    /\ call.ret[2].branchname = call.input.nodes[2].text
    /\ call.ret[1].title # call.ret[2].title

-----------------------------------------------------------------------------
(* Properties of ExtendResponsePageParser: the success case *)

\* the first item of the message list has the success phrase and not the
\* failure phrase
SuccessList ==
    /\ ExtendParsedList
    /\ SuccessPhrase \in call.input.blob.lis[1].phrases
    /\ FailurePhrase \notin call.input.blob.lis[1].phrases

\* C26: when the first item of the message list contains the success
\* phrase and not the failure phrase, the extend-response parser returns
\* likely_success True, count the number of items after the first, and
\* details with exactly one (title, until) pair per such item, in the
\* order of the list.
C26_SuccessListGivesOnePairPerItem ==
    SuccessList
        => /\ ~Raised(call.exc)
           /\ call.ret.likely_success
           /\ call.ret.count = Len(call.input.blob.lis) - 1
           /\ Len(call.ret.details) = Len(call.input.blob.lis) - 1
           /\ \A k \in DOMAIN call.ret.details :
                 call.ret.details[k].title = call.input.blob.lis[k + 1].em

-----------------------------------------------------------------------------
(* Properties of AccountsListPageParser: the item counts *)

\* the accounts parser returned a list
AccountsParsed == call.op = "AccountsListPageParser.parse" /\ ~Raised(call.exc)

\* the count read from a counter: 0 for the text with "Geen", the number
\* for a text with a number, and None (never 0) for a counter that is
\* missing or whose text has neither
TriState(li, count) ==
    /\ (li.present /\ li.geen) => count = 0
    /\ (li.present /\ ~li.geen /\ li.numbers # <<>>) => count = li.numbers[1]
    /\ (~li.present \/ (~li.geen /\ li.numbers = <<>>))
          => (count = NoCount /\ count # 0)

\* C27: the loans and reservations counts of every Account the accounts
\* parser returns are tri-state: "Geen ..." gives 0, a text with a number
\* gives that number, a missing or unreadable counter gives None and
\* never 0.
C27_CountsAreTriState ==
    AccountsParsed
        => /\ Len(call.ret) = Len(call.input.cards)
           /\ \A i \in DOMAIN call.ret :
                 /\ TriState(call.input.cards[i].loans_li, call.ret[i].loans_count)
                 /\ TriState(call.input.cards[i].holds_li, call.ret[i].reservations_count)

\* an account with "Geen uitleningen" and an unreadable reservations counter
C27_Witness ==
    /\ AccountsParsed
    /\ Len(call.ret) >= 1
    /\ call.input.cards[1].loans_li = LiGeen
    /\ call.input.cards[1].holds_li = LiUnreadable
    /\ call.ret[1].loans_count = 0
    /\ call.ret[1].reservations_count = NoCount

-----------------------------------------------------------------------------
(* Properties of the data methods: no data request without login *)

\* the pages with account data: the membership list, the loans and the
\* reservations of an account, and the extension of loans
DataPages == {"lidmaatschappen", "uitleningen", "reservaties", "verlengen"}
\* the methods that ask for account data
DataMethods == DataOps \cup {"get_all_info"}
\* the last call sent a request for account data
DataRequested == \E i \in DOMAIN call.reqs : call.reqs[i].url.page \in DataPages

\* C28: a data method sends a request for account data only on an
\* instance whose logged-in flag is true; when the flag is still false
\* after the call, the call raised and sent no data request.
C28_NoDataRequestWithoutLogin ==
    (call.op \in DataMethods)
        => /\ DataRequested => logged_in
           /\ ~logged_in => (Raised(call.exc) /\ ~DataRequested)

\* a data method logged in first and then sent its data request
C28_Witness ==
    /\ call.op \in DataMethods
    /\ call.login
    /\ DataRequested
    /\ logged_in

\* a data method whose login failed: it raised without a data request
C28_WitnessFailedLogin ==
    /\ call.op \in DataMethods
    /\ call.login
    /\ ~logged_in
    /\ Raised(call.exc)

-----------------------------------------------------------------------------
(* Properties of LoginByOAuth.login: the browser's cookies *)

\* the cookies the browser sends: those of the session once it uses the
\* session's jar, none of the session's before
BrowserCookies == IF br_cookiejar = "session" THEN s_cookies ELSE {}

\* C29: a call of LoginByOAuth.login changes the cookies of the browser
\* only if the final page passed validation; when login raises, the
\* cookies of the browser are those of before the call.
C29_RaisingLoginLeavesBrowserCookies ==
    [][(call'.op = "oauth_login" /\ BrowserCookies' # BrowserCookies)
          => (call'.reached /\ ~Raised(call'.exc))]_vars

\* C29 as amended: LoginByOAuth.login makes the browser use the session's
\* jar only after validation of the final page has succeeded, and when
\* login raises on a handler whose browser does not yet use the session's
\* jar, the cookies of the browser are unchanged.
C29_FirstLoginLeavesBrowserCookies ==
    [][(call'.op = "oauth_login")
          => /\ br_cookiejar' # br_cookiejar => (call'.reached /\ ~Raised(call'.exc))
             /\ (br_cookiejar = "own" /\ BrowserCookies' # BrowserCookies)
                   => (call'.reached /\ ~Raised(call'.exc))]_vars

\* a login that raised after the session received cookies, the browser
\* still on its own jar
C29_Witness ==
    /\ call.op = "oauth_login"
    /\ Raised(call.exc)
    /\ s_cookies # {}
    /\ br_cookiejar = "own"

-----------------------------------------------------------------------------
(* Properties of extend_loans: the success flag *)

\* extend_loans(execute=True) returned after the response to the submission
ExtendReturned ==
    /\ call.op = "extend_loans"
    /\ call.execute
    /\ ~Raised(call.exc)
    /\ GotExtendResponse
\* the parser can not read the details of the response
DetailsUnparsed == Raised(ExtendResponsePageParser_parse(call.input.response).exc)
\* the parsed details have likely_success False
DetailsReportFailure ==
    /\ ~DetailsUnparsed
    /\ ~ExtendResponsePageParser_parse(call.input.response).list.likely_success

\* C30: extend_loans(execute=True) returns success True exactly when the
\* response had status 200 and the parsed details do not have
\* likely_success False; when the details can not be parsed, success is
\* decided by the status alone and details is the empty dict.
C30_SuccessFromStatusAndDetails ==
    ExtendReturned
        => /\ call.ret.success
                <=> (call.input.submit = "code200" /\ ~DetailsReportFailure)
           /\ DetailsUnparsed
                => /\ call.ret.details = NoDetails
                   /\ call.ret.success <=> (call.input.submit = "code200")

\* a response with status 200 whose details report a failure
C30_Witness ==
    /\ ExtendReturned
    /\ call.input.submit = "code200"
    /\ DetailsReportFailure
    /\ ~call.ret.success

====
